---- MODULE Spec2Model ----
(***************************************************************************)
(* A model of bhedi: the streaming pipeline of API/bhedi.go                *)
(* (processFastqStream and the functions it calls) and the batch pipeline  *)
(* of the CLI program (processFastqFile).                                  *)
(*                                                                         *)
(* Strings are sequences of one-character strings.  A float64 is an exact  *)
(* rational [k |-> "num", n, d] in lowest terms, or one of the IEEE        *)
(* specials NaN, +Inf, -Inf; rounding is not modelled.                     *)
(***************************************************************************)
EXTENDS Integers, Sequences, FiniteSets, TLC

VARIABLES
  variant,            \* "stream" (API/bhedi.go), "cli" (the CLI program) or "fn"
  sankets,            \* the marker catalog: SID -> SanketInfo
  avgReadLength,      \* run statistics
  totalRecords,
  semCap,             \* capacity of the semaphore channel
  mainPc,             \* position of processFastqStream / processFastqFile
  streamState,        \* "open", "eof" or "error": what reader.Read() returned last
  stream,             \* the records reader.Read() has returned so far
  cur,                \* the record the dispatcher holds between Read and go
  workers,            \* one entry per goroutine started for a record
  semaphore,          \* tokens in the semaphore channel
  wg,                 \* the WaitGroup counter
  parquetWriterMutex, \* MutexFree, MainHolder or the index of the holding worker
  sink,               \* rows pw.Write accepted, in order
  dropped,            \* rows whose pw.Write returned an error (logged only)
  writeStops,         \* invocations of pw.WriteStop
  fwClosed,           \* fw.Close has run
  retval,             \* "none", "ok", "err" or the failure of the start
  procCount,          \* ReadID -> invocations of processRecord on that record
  results,            \* CLI: the results channel's buffer
  chanClosed,         \* CLI: close(results) has run
  closerPc,           \* CLI: position of the goroutine that closes results
  consumer,           \* CLI: the result the range loop is writing, and the row index
  pin,                \* inputs of the function under check
  pout,               \* its outputs
  ppc                 \* position of the function check

vars == <<variant, sankets, avgReadLength, totalRecords, semCap, mainPc,
          streamState, stream, cur, workers, semaphore, wg, parquetWriterMutex,
          sink, dropped, writeStops, fwClosed, retval, procCount, results,
          chanClosed, closerPc, consumer, pin, pout, ppc>>

pipelineVars == <<variant, sankets, avgReadLength, totalRecords, semCap, mainPc,
          streamState, stream, cur, workers, semaphore, wg, parquetWriterMutex,
          sink, dropped, writeStops, fwClosed, retval, procCount, results,
          chanClosed, closerPc, consumer>>

fnVars == <<pin, pout, ppc>>

(***************************************************************************)
(* Bounds of the model.                                                    *)
(***************************************************************************)
MaxRecords == 2        \* records a stream holds at most
MaxWriteFailures == 1  \* pw.Write calls that may fail in one run
MaxSeqLen == 3         \* length of a read in the function checks
MaxMarkers == 2        \* markers of a catalog in the function checks
MaxCoverage == 2       \* largest totalCoverage handed to calculateBScore alone

SemaphoreCapacity == 30

(***************************************************************************)
(* float64                                                                 *)
(***************************************************************************)
NaN == [k |-> "nan", n |-> 0, d |-> 1]
PInf == [k |-> "inf", n |-> 1, d |-> 1]
NInf == [k |-> "inf", n |-> -1, d |-> 1]

Abs(x) == IF x < 0 THEN -x ELSE x

RECURSIVE GCD(_, _)
GCD(a, b) == IF b = 0 THEN a ELSE GCD(b, a % b)

\* n/d in lowest terms, d # 0
Q(n, d) ==
  LET g == GCD(Abs(n), Abs(d))
      s == IF d < 0 THEN -1 ELSE 1
  IN [k |-> "num", n |-> (s * n) \div g, d |-> (s * d) \div g]

IsNaN(x) == x.k = "nan"
IsInf(x) == x.k = "inf"
IsNum(x) == x.k = "num"
Sign(x) == IF x.n > 0 THEN 1 ELSE IF x.n < 0 THEN -1 ELSE 0

\* -0.0: a zero keeps its sign in d; Q(0, 1) is +0.0
NegZero == [k |-> "num", n |-> 0, d |-> -1]

IsZero(x) == IsNum(x) /\ x.n = 0

\* the sign bit of a non-NaN value: -1 when it is set, 1 when it is not
SignBit(x) == IF IsZero(x) THEN x.d ELSE IF x.n < 0 THEN -1 ELSE 1

\* the zero and the infinity of sign s
Zero(s) == IF s < 0 THEN NegZero ELSE Q(0, 1)
Inf(s) == IF s < 0 THEN NInf ELSE PInf

\* the denominator of a number, without the sign a zero keeps there
Den(x) == Abs(x.d)

\* x < y on non-NaN values (-0.0 and +0.0 compare equal)
FLess(x, y) ==
  IF IsInf(x) THEN x.n < 0 /\ ~(IsInf(y) /\ y.n < 0)
  ELSE IF IsInf(y) THEN y.n > 0
  ELSE x.n * Den(y) < y.n * Den(x)

\* x + y: a zero sum is +0.0 unless both terms are -0.0
FAdd(x, y) ==
  IF IsNaN(x) \/ IsNaN(y) THEN NaN
  ELSE IF IsInf(x) /\ IsInf(y) THEN (IF x.n = y.n THEN x ELSE NaN)
  ELSE IF IsInf(x) THEN x
  ELSE IF IsInf(y) THEN y
  ELSE IF IsZero(x) /\ IsZero(y)
       THEN (IF SignBit(x) < 0 /\ SignBit(y) < 0 THEN NegZero ELSE Q(0, 1))
  ELSE Q(x.n * Den(y) + y.n * Den(x), Den(x) * Den(y))

\* x * y: the sign of a zero or infinite product is the product of the signs
FMul(x, y) ==
  IF IsNaN(x) \/ IsNaN(y) THEN NaN
  ELSE IF IsInf(x) \/ IsInf(y)
       THEN (IF Sign(x) * Sign(y) = 0 THEN NaN
             ELSE Inf(SignBit(x) * SignBit(y)))
  ELSE IF IsZero(x) \/ IsZero(y) THEN Zero(SignBit(x) * SignBit(y))
  ELSE Q(x.n * y.n, x.d * y.d)

\* x / y: the sign of a zero or infinite quotient is the product of the
\* signs, that of a zero divisor included
FDiv(x, y) ==
  IF IsNaN(x) \/ IsNaN(y) THEN NaN
  ELSE IF IsInf(x) /\ IsInf(y) THEN NaN
  ELSE IF IsInf(x) THEN Inf(SignBit(x) * SignBit(y))
  ELSE IF IsInf(y) THEN Zero(SignBit(x) * SignBit(y))
  ELSE IF IsZero(y)
       THEN (IF IsZero(x) THEN NaN ELSE Inf(SignBit(x) * SignBit(y)))
  ELSE IF IsZero(x) THEN Zero(SignBit(x) * SignBit(y))
  ELSE Q(x.n * y.d, x.d * y.n)

\* math.Min: -Inf wins, then NaN, then -0.0 over +0.0, then the lesser
FMin(x, y) ==
  IF (IsInf(x) /\ x.n < 0) \/ (IsInf(y) /\ y.n < 0) THEN NInf
  ELSE IF IsNaN(x) \/ IsNaN(y) THEN NaN
  ELSE IF IsZero(x) /\ IsZero(y) THEN (IF SignBit(x) < 0 THEN x ELSE y)
  ELSE IF FLess(x, y) THEN x ELSE y

\* math.Max: +Inf wins, then NaN, then +0.0 over -0.0, then the greater
FMax(x, y) ==
  IF (IsInf(x) /\ x.n > 0) \/ (IsInf(y) /\ y.n > 0) THEN PInf
  ELSE IF IsNaN(x) \/ IsNaN(y) THEN NaN
  ELSE IF IsZero(x) /\ IsZero(y) THEN (IF SignBit(x) < 0 THEN y ELSE x)
  ELSE IF FLess(x, y) THEN y ELSE x

\* float64(i)
FInt(i) == Q(i, 1)

(***************************************************************************)
(* strings and strconv                                                     *)
(***************************************************************************)
\* mutant: the comparison folds case
Fold(s) == [i \in 1..Len(s) |-> IF s[i] = "a" THEN "A" ELSE s[i]]

ContainsFold(s, substr) ==
  \E i \in 0..(Len(s) - Len(substr)) :
    Fold(SubSeq(s, i + 1, i + Len(substr))) = Fold(substr)

\* strings.Contains
Contains(s, substr) ==
  \E i \in 0..(Len(s) - Len(substr)) : SubSeq(s, i + 1, i + Len(substr)) = substr

\* strings.Count for a one-character pattern
Count(s, c) == Cardinality({i \in 1..Len(s) : s[i] = c})

DigitVal ==
  [c \in {"0", "1", "2", "3", "4", "5", "6", "7", "8", "9"} |->
     CASE c = "0" -> 0 [] c = "1" -> 1 [] c = "2" -> 2 [] c = "3" -> 3
       [] c = "4" -> 4 [] c = "5" -> 5 [] c = "6" -> 6 [] c = "7" -> 7
       [] c = "8" -> 8 [] c = "9" -> 9]

RECURSIVE DecVal(_)
DecVal(ds) ==
  IF ds = <<>> THEN 0
  ELSE 10 * DecVal(SubSeq(ds, 1, Len(ds) - 1)) + DigitVal[ds[Len(ds)]]

\* the digits ds without their leading zeros
RECURSIVE StripZeros(_)
StripZeros(ds) ==
  IF ds # <<>> /\ Head(ds) = "0" THEN StripZeros(Tail(ds)) ELSE ds

\* of two digit strings of one length, a writes the greater number
RECURSIVE DigitsGreater(_, _)
DigitsGreater(a, b) ==
  IF a = <<>> THEN FALSE
  ELSE IF Head(a) # Head(b) THEN DigitVal[Head(a)] > DigitVal[Head(b)]
  ELSE DigitsGreater(Tail(a), Tail(b))

\* the number the digits ds write is greater than the one limit writes
Exceeds(ds, limit) ==
  LET a == StripZeros(ds)
  IN Len(a) > Len(limit) \/ (Len(a) = Len(limit) /\ DigitsGreater(a, limit))

\* 1<<63 - 1, 1<<63 and 1<<64 - 1 in decimal digits
MaxInt64Digits ==
  <<"9", "2", "2", "3", "3", "7", "2", "0", "3", "6",
    "8", "5", "4", "7", "7", "5", "8", "0", "7">>
MinInt64Digits ==
  <<"9", "2", "2", "3", "3", "7", "2", "0", "3", "6",
    "8", "5", "4", "7", "7", "5", "8", "0", "8">>
MaxUint64Digits ==
  <<"1", "8", "4", "4", "6", "7", "4", "4", "0", "7",
    "3", "7", "0", "9", "5", "5", "1", "6", "1", "5">>

\* the values a range error returns, kept by name
MaxInt64 == "math.MaxInt64"
MinInt64 == "math.MinInt64"

\* mutant: the digits before the first other character are the value
AtoiLenient(s) ==
  LET n == IF \E i \in 1..Len(s) : s[i] \notin DOMAIN DigitVal
           THEN (CHOOSE i \in 1..Len(s) :
                   /\ s[i] \notin DOMAIN DigitVal
                   /\ \A j \in 1..(i - 1) : s[j] \in DOMAIN DigitVal) - 1
           ELSE Len(s)
  IN IF Exceeds(SubSeq(s, 1, n), MaxInt64Digits)
     THEN [val |-> MaxInt64, err |-> TRUE]
     ELSE [val |-> DecVal(SubSeq(s, 1, n)), err |-> n = 0]

\* strconv.Atoi, int of 64 bits: an optional sign, then one or more decimal
\* digits.  The digits are read from the left: one that takes the value
\* past 1<<64 - 1 ends the parse with a range error before a later
\* character is looked at, another character ends it with a syntax error,
\* and digits that write a number no int64 holds are a range error.
Atoi(s) ==
  LET signed == Len(s) > 0 /\ s[1] \in {"+", "-"}
      body == IF signed THEN Tail(s) ELSE s
      neg == signed /\ s[1] = "-"
      bad == {i \in 1..Len(body) : body[i] \notin DOMAIN DigitVal}
      ndigits == IF bad = {} THEN Len(body)
                 ELSE (CHOOSE i \in bad : \A j \in bad : i <= j) - 1
      digits == SubSeq(body, 1, ndigits)
      rangeErr == [val |-> IF neg THEN MinInt64 ELSE MaxInt64, err |-> TRUE]
  IN IF body = <<>> THEN [val |-> 0, err |-> TRUE]
     ELSE IF Exceeds(digits, MaxUint64Digits) THEN rangeErr
     ELSE IF bad # {} THEN [val |-> 0, err |-> TRUE]
     ELSE IF Exceeds(body, IF neg THEN MinInt64Digits ELSE MaxInt64Digits)
          THEN rangeErr
     ELSE [val |-> IF neg THEN -DecVal(body) ELSE DecVal(body), err |-> FALSE]

(***************************************************************************)
(* API/bhedi.go: the scorer and the record processor                       *)
(***************************************************************************)
calculateGCPercentage(seq) ==
  LET gcCount == Count(seq, "G") + Count(seq, "C")
  IN FMul(FDiv(FInt(gcCount), FInt(Len(seq))), FInt(100))

\* the base score of the streaming variant
BaseScore(ssrCountInt, pCountInt) ==
  IF ssrCountInt > 0 /\ pCountInt > 0 THEN Q(35, 100)
  ELSE IF ssrCountInt > 0 \/ pCountInt > 0 THEN Q(2, 10)
  ELSE Q(0, 1)

\* mutant: the sum is returned as it is
Unclamped(bScore) == bScore

\* math.Min(math.Max(bScore, 0), 1)
Clamp01(bScore) == FMin(FMax(bScore, Q(0, 1)), Q(1, 1))

calculateBScore(totalCoverage, sLen, ssrCount, pCount, avgRL, totalRecs) ==
  LET a1 == Atoi(ssrCount)
      a2 == Atoi(pCount)
      ssrCountInt == IF a1.err THEN 0 ELSE a1.val
      pCountInt == IF a2.err THEN 0 ELSE a2.val
      baseScore == BaseScore(ssrCountInt, pCountInt)
      genomeSize == Q(11000, 1)
      maxTotalCoverage == FDiv(FMul(avgRL, FInt(totalRecs)), genomeSize)
      maxExpectedCoverage == maxTotalCoverage
      normalizedTotalCoverage ==
        FMin(FDiv(FInt(totalCoverage), maxExpectedCoverage), Q(1, 1))
      maxSLen == Q(25, 1)
      normalizedSLen == FMin(FDiv(FInt(sLen), maxSLen), Q(1, 1))
      totalCoverageWeight == Q(37, 100)
      sLenWeight == Q(4, 10)
      weightedTotalCoverage == FMul(normalizedTotalCoverage, totalCoverageWeight)
      weightedSLen == FMul(normalizedSLen, sLenWeight)
      bScore == FAdd(FAdd(baseScore, weightedTotalCoverage), weightedSLen)
  IN Clamp01(bScore)

\* MatchInfo built from a catalog entry (BScore is filled in afterwards)
MatchOf(info) ==
  [SID |-> info.SID, Sanket |-> info.Sanket, Serotype |-> info.Serotype,
   SLen |-> info.SLen, SSRCount |-> info.SSRCount, MLenAvg |-> info.MLenAvg,
   MRCAvg |-> info.MRCAvg, PCount |-> info.PCount, PLenAvg |-> info.PLenAvg,
   BScore |-> Q(0, 1)]

\* coverageMap[serotype]++ on a map whose missing keys read as 0
Incr(coverageMap, serotype) ==
  [s \in DOMAIN coverageMap \cup {serotype} |->
     IF s = serotype
     THEN (IF s \in DOMAIN coverageMap THEN coverageMap[s] ELSE 0) + 1
     ELSE coverageMap[s]]

\* the first loop of processRecord: `order` is the order in which the range
\* over the catalog map visits its keys
RECURSIVE ScanSankets(_, _, _, _)
ScanSankets(seq, cat, order, acc) ==
  IF order = <<>> THEN acc
  ELSE LET info == cat[Head(order)]
       IN ScanSankets(seq, cat, Tail(order),
            IF Contains(seq, info.Sanket)
            THEN [matches |-> Append(acc.matches, MatchOf(info)),
                  coverageMap |-> Incr(acc.coverageMap, info.Serotype),
                  matchesFound |-> TRUE]
            ELSE acc)

\* the second loop of processRecord
RECURSIVE SumCounts(_)
SumCounts(coverageMap) ==
  IF DOMAIN coverageMap = {} THEN 0
  ELSE LET s == CHOOSE x \in DOMAIN coverageMap : TRUE
       IN coverageMap[s] + SumCounts([t \in DOMAIN coverageMap \ {s} |-> coverageMap[t]])

\* mutant: the sum starts at 1
TotalCoverageFromOne(coverageMap) == 1 + SumCounts(coverageMap)

\* totalCoverage := 0, then += count over the map
TotalCoverageOf(coverageMap) == SumCounts(coverageMap)

\* mutant: the i-th match is scored with the matches counted up to it
CoverageSoFar(totalCoverage, i) == i

\* the totalCoverage argument of the call that scores the i-th match in the
\* third loop of processRecord
CoverageArg(totalCoverage, i) == totalCoverage

processRecord(seq, id, cat, avgRL, totalRecs, order) ==
  LET gcPercentage == calculateGCPercentage(seq)
      scan == ScanSankets(seq, cat, order,
                [matches |-> <<>>, coverageMap |-> <<>>, matchesFound |-> FALSE])
      totalCoverage == TotalCoverageOf(scan.coverageMap)
      matches ==
        [i \in 1..Len(scan.matches) |->
           [scan.matches[i] EXCEPT !.BScore =
              calculateBScore(CoverageArg(totalCoverage, i), scan.matches[i].SLen,
                              scan.matches[i].SSRCount, scan.matches[i].PCount,
                              avgRL, totalRecs)]]
  IN [ReadID |-> id, Matches |-> matches, GCPercentage |-> gcPercentage,
      TotalCoverage |-> totalCoverage, MatchesFound |-> scan.matchesFound]

\* the string "No Match Found"
NoMatchFound ==
  <<"N", "o", " ", "M", "a", "t", "c", "h", " ", "F", "o", "u", "n", "d">>

\* the rows the goroutine of processFastqStream hands to pw.Write for a result
SentinelRow(result) ==
  [SID |-> "", ReadID |-> result.ReadID, MatchedSanket |-> NoMatchFound,
   Serotype |-> "Unassigned", GCPercentage |-> result.GCPercentage,
   TotalCoverage |-> 0, SLen |-> 0, SSRCount |-> <<>>, MLenAvg |-> "",
   MRCAvg |-> "", PCount |-> <<>>, PLenAvg |-> "", BScore |-> Q(0, 1)]

\* int32(x): the low 32 bits of x, read as a signed number
MinInt32 == -2147483647 - 1
MaxInt32 == 2147483647
Int32(x) ==
  IF MinInt32 <= x /\ x <= MaxInt32 THEN x
  ELSE ((x - MinInt32) % (2 * (MaxInt32 + 1))) + MinInt32

MatchRow(result, match) ==
  [SID |-> match.SID, ReadID |-> result.ReadID, MatchedSanket |-> match.Sanket,
   Serotype |-> match.Serotype, GCPercentage |-> result.GCPercentage,
   TotalCoverage |-> Int32(result.TotalCoverage), SLen |-> Int32(match.SLen),
   SSRCount |-> match.SSRCount, MLenAvg |-> match.MLenAvg,
   MRCAvg |-> match.MRCAvg, PCount |-> match.PCount,
   PLenAvg |-> match.PLenAvg, BScore |-> match.BScore]

\* mutant: nothing is written for a record without a match
StreamRowsMatchesOnly(result) ==
  [i \in 1..Len(result.Matches) |-> MatchRow(result, result.Matches[i])]

StreamRows(result) ==
  IF result.MatchesFound
  THEN [i \in 1..Len(result.Matches) |-> MatchRow(result, result.Matches[i])]
  ELSE <<SentinelRow(result)>>

(***************************************************************************)
(* The CLI program: its scorer, record processor and rows                  *)
(***************************************************************************)
BaseScoreCLI(ssrCountInt, pCountInt) ==
  IF ssrCountInt > 0 /\ pCountInt > 0 THEN Q(3, 10)
  ELSE IF ssrCountInt > 0 \/ pCountInt > 0 THEN Q(15, 100)
  ELSE Q(0, 1)

calculateBScoreCLI(totalCoverage, sLen, ssrCount, pCount) ==
  LET a1 == Atoi(ssrCount)
      a2 == Atoi(pCount)
      ssrCountInt == IF a1.err THEN 0 ELSE a1.val
      pCountInt == IF a2.err THEN 0 ELSE a2.val
      baseScore == BaseScoreCLI(ssrCountInt, pCountInt)
      maxTotalCoverage == Q(1000, 1)
      maxSLen == Q(100, 1)
      normalizedTotalCoverage == FMin(FDiv(FInt(totalCoverage), maxTotalCoverage), Q(1, 1))
      normalizedSLen == FMin(FDiv(FInt(sLen), maxSLen), Q(1, 1))
      totalCoverageWeight == Q(3, 10)
      sLenWeight == Q(4, 10)
      weightedTotalCoverage == FMul(normalizedTotalCoverage, totalCoverageWeight)
      weightedSLen == FMul(normalizedSLen, sLenWeight)
      bScore == FAdd(FAdd(baseScore, weightedTotalCoverage), weightedSLen)
  IN Clamp01(bScore)

\* MatchInfo of the CLI program has no SID
MatchOfCLI(info) ==
  [Sanket |-> info.Sanket, Serotype |-> info.Serotype,
   SLen |-> info.SLen, SSRCount |-> info.SSRCount, MLenAvg |-> info.MLenAvg,
   MRCAvg |-> info.MRCAvg, PCount |-> info.PCount, PLenAvg |-> info.PLenAvg,
   BScore |-> Q(0, 1)]

RECURSIVE ScanSanketsCLI(_, _, _, _)
ScanSanketsCLI(seq, cat, order, acc) ==
  IF order = <<>> THEN acc
  ELSE LET info == cat[Head(order)]
       IN ScanSanketsCLI(seq, cat, Tail(order),
            IF Contains(seq, info.Sanket)
            THEN [matches |-> Append(acc.matches, MatchOfCLI(info)),
                  coverageMap |-> Incr(acc.coverageMap, info.Serotype),
                  matchesFound |-> TRUE]
            ELSE acc)

processRecordCLI(seq, id, cat, order) ==
  LET gcPercentage == calculateGCPercentage(seq)
      scan == ScanSanketsCLI(seq, cat, order,
                [matches |-> <<>>, coverageMap |-> <<>>, matchesFound |-> FALSE])
      totalCoverage == TotalCoverageOf(scan.coverageMap)
      matches ==
        [i \in 1..Len(scan.matches) |->
           [scan.matches[i] EXCEPT !.BScore =
              calculateBScoreCLI(totalCoverage, scan.matches[i].SLen,
                                 scan.matches[i].SSRCount, scan.matches[i].PCount)]]
  IN [ReadID |-> id, Matches |-> matches, GCPercentage |-> gcPercentage,
      TotalCoverage |-> totalCoverage, MatchesFound |-> scan.matchesFound]

SentinelRowCLI(result) ==
  [ReadID |-> result.ReadID, MatchedSanket |-> NoMatchFound,
   Serotype |-> "N/A", GCPercentage |-> result.GCPercentage,
   TotalCoverage |-> 0, SLen |-> 0, SSRCount |-> <<>>, MLenAvg |-> "",
   MRCAvg |-> "", PCount |-> <<>>, PLenAvg |-> "", BScore |-> Q(0, 1)]

MatchRowCLI(result, match) ==
  [ReadID |-> result.ReadID, MatchedSanket |-> match.Sanket,
   Serotype |-> match.Serotype, GCPercentage |-> result.GCPercentage,
   TotalCoverage |-> result.TotalCoverage, SLen |-> match.SLen,
   SSRCount |-> match.SSRCount, MLenAvg |-> match.MLenAvg,
   MRCAvg |-> match.MRCAvg, PCount |-> match.PCount,
   PLenAvg |-> match.PLenAvg, BScore |-> match.BScore]

CLIRows(result) ==
  IF result.MatchesFound
  THEN [i \in 1..Len(result.Matches) |-> MatchRowCLI(result, result.Matches[i])]
  ELSE <<SentinelRowCLI(result)>>

(***************************************************************************)
(* Inputs                                                                  *)
(***************************************************************************)
Alphabet == {"A", "G", "a"}

Seqs(n) == UNION {[1..m -> Alphabet] : m \in 0..n}

SIDNames == <<"s1", "s2", "s3", "s4">>
SIDs == {SIDNames[i] : i \in 1..MaxMarkers}

ReadIDNames == <<"r1", "r2", "r3", "r4">>

\* catalog rows as LoadSankets leaves them: SLen and the count fields are
\* whatever the CSV held
MarkerPool ==
  { [Serotype |-> "DENV-1", Sanket |-> <<"A", "G">>, SLen |-> 2,
     SSRCount |-> <<"1">>, MLenAvg |-> "2.0", MRCAvg |-> "3.0",
     PCount |-> <<"2">>, PLenAvg |-> "4.0"],
    [Serotype |-> "DENV-1", Sanket |-> <<"G", "A">>, SLen |-> 30,
     SSRCount |-> <<"x">>, MLenAvg |-> "", MRCAvg |-> "",
     PCount |-> <<"0">>, PLenAvg |-> ""],
    [Serotype |-> "DENV-2", Sanket |-> <<"a">>, SLen |-> 10,
     SSRCount |-> <<"-", "1">>, MLenAvg |-> "1.0", MRCAvg |-> "",
     PCount |-> <<"1", "2">>, PLenAvg |-> "6.5"],
    [Serotype |-> "DENV-2", Sanket |-> <<"A">>, SLen |-> 0,
     SSRCount |-> <<>>, MLenAvg |-> "", MRCAvg |-> "",
     PCount |-> <<>>, PLenAvg |-> ""] }

\* sankets[sid] = SanketInfo{SID: sid, ...}
WithSID(m, sid) ==
  [SID |-> sid, Serotype |-> m.Serotype, Sanket |-> m.Sanket, SLen |-> m.SLen,
   SSRCount |-> m.SSRCount, MLenAvg |-> m.MLenAvg, MRCAvg |-> m.MRCAvg,
   PCount |-> m.PCount, PLenAvg |-> m.PLenAvg]

Catalogs ==
  UNION { {[sid \in S |-> WithSID(f[sid], sid)] : f \in [S -> MarkerPool]} :
          S \in SUBSET SIDs }

\* the orders in which a range over a map with key set S may visit it
Orders(S) ==
  {o \in [1..Cardinality(S) -> S] :
     \A i, j \in 1..Cardinality(S) : i # j => o[i] # o[j]}

RunStats ==
  { [avg |-> Q(0, 1), total |-> 0],
    [avg |-> Q(5500, 1), total |-> 4] }

\* the last one writes 1<<63, one more than an int holds
CountStrings ==
  { <<>>, <<"0">>, <<"3">>, <<"1", "2">>, <<"-", "2">>, <<"+", "1">>,
    <<"x">>, <<"1", "x">>, <<"-">>, MinInt64Digits }

SLens == {-5, 0, 10, 25, 40}

AvgReadLengths == {Q(0, 1), Q(3, 2), Q(150, 1), Q(5500, 1)}

TotalRecordValues == {0, 1, 4, 1000}

(***************************************************************************)
(* The idle values of the pipeline's variables in the function checks and  *)
(* of the function checks' variables in the pipeline                       *)
(***************************************************************************)
\* the number of records read so far
nread == Len(stream)

MutexFree == -1
MainHolder == 0

NoRecord == [id |-> "", seq |-> <<>>]
NoResult == [ReadID |-> "", Matches |-> <<>>, GCPercentage |-> Q(0, 1),
             TotalCoverage |-> 0, MatchesFound |-> FALSE]

PipelineIdle ==
  /\ variant = "fn"
  /\ sankets = <<>>
  /\ avgReadLength = Q(0, 1)
  /\ totalRecords = 0
  /\ semCap = 0
  /\ mainPc = "idle"
  /\ streamState = "open"
  /\ stream = <<>>
  /\ cur = NoRecord
  /\ workers = <<>>
  /\ semaphore = 0
  /\ wg = 0
  /\ parquetWriterMutex = MutexFree
  /\ sink = <<>>
  /\ dropped = <<>>
  /\ writeStops = 0
  /\ fwClosed = FALSE
  /\ retval = "none"
  /\ procCount = <<>>
  /\ results = <<>>
  /\ chanClosed = FALSE
  /\ closerPc = "idle"
  /\ consumer = [result |-> NoResult, next |-> 0]

FnIdle ==
  /\ pin = [fn |-> "none"]
  /\ pout = [fn |-> "none"]
  /\ ppc = "idle"

(***************************************************************************)
(* SpecRecord: processRecord and the rows built from its result, on every  *)
(* read and catalog within the bounds                                      *)
(***************************************************************************)
InitRecord ==
  /\ PipelineIdle
  /\ pin \in [seq : Seqs(MaxSeqLen), cat : Catalogs, stats : RunStats]
  /\ pout = [fn |-> "none"]
  /\ ppc = "start"

ProcessRecordAPI ==
  /\ ppc = "start"
  /\ \E order \in Orders(DOMAIN pin.cat) :
       pout' = [fn |-> "api",
                result |-> processRecord(pin.seq, "r1", pin.cat, pin.stats.avg,
                                         pin.stats.total, order),
                rows |-> <<>>]
  /\ ppc' = "processed"
  /\ UNCHANGED <<pin, pipelineVars>>

ProcessRecordCLI ==
  /\ ppc = "start"
  /\ \E order \in Orders(DOMAIN pin.cat) :
       pout' = [fn |-> "cli",
                result |-> processRecordCLI(pin.seq, "r1", pin.cat, order),
                rows |-> <<>>]
  /\ ppc' = "processed"
  /\ UNCHANGED <<pin, pipelineVars>>

EmitRowsAPI ==
  /\ ppc = "processed"
  /\ pout.fn = "api"
  /\ pout' = [pout EXCEPT !.rows = StreamRows(pout.result)]
  /\ ppc' = "emitted"
  /\ UNCHANGED <<pin, pipelineVars>>

EmitRowsCLI ==
  /\ ppc = "processed"
  /\ pout.fn = "cli"
  /\ pout' = [pout EXCEPT !.rows = CLIRows(pout.result)]
  /\ ppc' = "emitted"
  /\ UNCHANGED <<pin, pipelineVars>>

NextRecord == ProcessRecordAPI \/ ProcessRecordCLI \/ EmitRowsAPI \/ EmitRowsCLI

SpecRecord == InitRecord /\ [][NextRecord]_vars

(***************************************************************************)
(* SpecScore: calculateBScore on its own                                   *)
(***************************************************************************)
InitScore ==
  /\ PipelineIdle
  /\ pin \in [totalCoverage : (-1)..MaxCoverage, sLen : SLens,
              ssrCount : CountStrings, pCount : CountStrings,
              avg : AvgReadLengths, total : TotalRecordValues]
  /\ pout = [fn |-> "none"]
  /\ ppc = "start"

ScoreAPI ==
  /\ ppc = "start"
  /\ pout' = [fn |-> "api",
              score |-> calculateBScore(pin.totalCoverage, pin.sLen, pin.ssrCount,
                                        pin.pCount, pin.avg, pin.total)]
  /\ ppc' = "scored"
  /\ UNCHANGED <<pin, pipelineVars>>

ScoreCLI ==
  /\ ppc = "start"
  /\ pout' = [fn |-> "cli",
              score |-> calculateBScoreCLI(pin.totalCoverage, pin.sLen,
                                           pin.ssrCount, pin.pCount)]
  /\ ppc' = "scored"
  /\ UNCHANGED <<pin, pipelineVars>>

NextScore == ScoreAPI \/ ScoreCLI

SpecScore == InitScore /\ [][NextScore]_vars

(***************************************************************************)
(* Spec: one run of a pipeline.  variant = "stream" is processFastqStream  *)
(* of API/bhedi.go, variant = "cli" is processFastqFile of the CLI         *)
(* program.  What reader.Read() returns is chosen at each call.            *)
(***************************************************************************)
PipelineCatalog ==
  [sid \in {"s1", "s2"} |->
     IF sid = "s1"
     THEN [SID |-> "s1", Serotype |-> "DENV-1", Sanket |-> <<"A", "G">>,
           SLen |-> 2, SSRCount |-> <<"1">>, MLenAvg |-> "2.0",
           MRCAvg |-> "3.0", PCount |-> <<"2">>, PLenAvg |-> "4.0"]
     ELSE [SID |-> "s2", Serotype |-> "DENV-1", Sanket |-> <<"G", "A">>,
           SLen |-> 30, SSRCount |-> <<"x">>, MLenAvg |-> "",
           MRCAvg |-> "", PCount |-> <<"0">>, PLenAvg |-> ""]]

\* a read no marker matches and a read both markers match
StreamReads == { <<"G", "G", "G">>, <<"A", "G", "A">> }

\* the capacity is 30 in the source; 1 and 2 make the pool saturate on the
\* streams of the model
Budgets == {1, 2, SemaphoreCapacity}

InitStream ==
  /\ FnIdle
  /\ variant = "stream"
  /\ sankets = PipelineCatalog
  /\ avgReadLength = Q(5500, 1)
  /\ totalRecords = 8
  /\ semCap \in Budgets
  /\ mainPc = "setup"
  /\ streamState = "open"
  /\ stream = <<>>
  /\ cur = NoRecord
  /\ workers = <<>>
  /\ semaphore = 0
  /\ wg = 0
  /\ parquetWriterMutex = MutexFree
  /\ sink = <<>>
  /\ dropped = <<>>
  /\ writeStops = 0
  /\ fwClosed = FALSE
  /\ retval = "none"
  /\ procCount = <<>>
  /\ results = <<>>
  /\ chanClosed = FALSE
  /\ closerPc = "idle"
  /\ consumer = [result |-> NoResult, next |-> 0]

\* mutant: a failure to get the run statistics is not checked
StartOutcomeUnchecked(outcome) ==
  IF outcome \in {"ok", "stats_err"} THEN "read" ELSE "returned"

\* where the run goes after its start: every failure is returned at once
StartOutcome(outcome) == IF outcome = "ok" THEN "read" ELSE "returned"

\* the upload handler (LoadSankets, getTotalRecordsAndAvgReadLength), then
\* lines 241-265: the reader, the file, the writer, the bar, the semaphore
StreamSetup ==
  /\ variant = "stream"
  /\ mainPc = "setup"
  /\ \E outcome \in {"ok", "catalog_err", "stats_err", "reader_err", "file_err",
                      "writer_err"} :
       /\ mainPc' = StartOutcome(outcome)
       /\ retval' = IF outcome = "ok" THEN "none" ELSE outcome
       \* defer fw.Close() is registered once the file exists
       /\ fwClosed' = (outcome = "writer_err")
  /\ UNCHANGED <<variant, sankets, avgReadLength, totalRecords, semCap,
                 streamState, stream, cur, workers, semaphore, wg,
                 parquetWriterMutex, sink, dropped, writeStops, procCount,
                 results, chanClosed, closerPc, consumer, fnVars>>

\* reader.Read() returns a record: copy it, wg.Add(1)
StreamReadRecord ==
  /\ variant = "stream"
  /\ mainPc = "read"
  /\ nread < MaxRecords
  /\ \E seq \in StreamReads :
       /\ cur' = [id |-> ReadIDNames[nread + 1], seq |-> seq]
       /\ stream' = Append(stream, cur')
  /\ wg' = wg + 1
  /\ mainPc' = "acquire"
  /\ UNCHANGED <<variant, sankets, avgReadLength, totalRecords, semCap,
                 streamState, workers, semaphore, parquetWriterMutex, sink,
                 dropped, writeStops, fwClosed, retval, procCount, results,
                 chanClosed, closerPc, consumer, fnVars>>

\* reader.Read() returns io.EOF: break
StreamReadEOF ==
  /\ variant = "stream"
  /\ mainPc = "read"
  /\ streamState' = "eof"
  /\ mainPc' = "wait"
  /\ UNCHANGED <<variant, sankets, avgReadLength, totalRecords, semCap, stream,
                 cur, workers, semaphore, wg, parquetWriterMutex, sink, dropped,
                 writeStops, fwClosed, retval, procCount, results, chanClosed,
                 closerPc, consumer, fnVars>>

\* mutant: the error is logged and the loop goes on
ContinueAfterReadError == "read"

\* where the dispatcher goes on a read error: it returns, so the deferred
\* calls run next
AfterReadError == "defer_stop"

\* reader.Read() returns another error: return it
StreamReadError ==
  /\ variant = "stream"
  /\ mainPc = "read"
  /\ streamState' = "error"
  /\ retval' = "err"
  /\ mainPc' = AfterReadError
  /\ UNCHANGED <<variant, sankets, avgReadLength, totalRecords, semCap, stream,
                 cur, workers, semaphore, wg, parquetWriterMutex, sink, dropped,
                 writeStops, fwClosed, procCount, results, chanClosed,
                 closerPc, consumer, fnVars>>

\* mutant: the go statement is not gated by the semaphore
AcquireUngated == TRUE

\* semaphore <- struct{}{} can proceed
CanAcquire == semaphore < semCap

\* mutant: the goroutine is handed the previous record's data again
GoArgsStale(record) ==
  IF workers = <<>> THEN [id |-> record.id, seq |-> record.seq]
  ELSE [id |-> workers[Len(workers)].id, seq |-> workers[Len(workers)].seq]

\* the arguments the go statement passes: the copies made of this record
GoArgs(record) == [id |-> record.id, seq |-> record.seq]

\* semaphore <- struct{}{}, then go func(seqCopy, idCopy)
StreamAcquire ==
  /\ variant = "stream"
  /\ mainPc = "acquire"
  /\ CanAcquire
  /\ semaphore' = semaphore + 1
  /\ workers' = Append(workers,
                  [pc |-> "process", id |-> GoArgs(cur).id, seq |-> GoArgs(cur).seq,
                   result |-> NoResult, next |-> 1])
  /\ cur' = NoRecord
  /\ mainPc' = "read"
  /\ UNCHANGED <<variant, sankets, avgReadLength, totalRecords, semCap,
                 streamState, stream, wg, parquetWriterMutex, sink, dropped,
                 writeStops, fwClosed, retval, procCount, results, chanClosed,
                 closerPc, consumer, fnVars>>

\* wg.Wait() can return
WaitReturns == wg = 0

\* wg.Wait(); bar.Finish()
StreamWait ==
  /\ variant = "stream"
  /\ mainPc = "wait"
  /\ WaitReturns
  /\ mainPc' = "lockstop"
  /\ UNCHANGED <<variant, sankets, avgReadLength, totalRecords, semCap,
                 streamState, stream, cur, workers, semaphore, wg,
                 parquetWriterMutex, sink, dropped, writeStops, fwClosed,
                 retval, procCount, results, chanClosed, closerPc, consumer,
                 fnVars>>

\* mutant: Lock() never waits
MutexIgnored == TRUE

\* parquetWriterMutex.Lock() can proceed
MutexIsFree == parquetWriterMutex = MutexFree

\* parquetWriterMutex.Lock() before the final WriteStop
StreamLockStop ==
  /\ variant = "stream"
  /\ mainPc = "lockstop"
  /\ MutexIsFree
  /\ parquetWriterMutex' = MainHolder
  /\ mainPc' = "writestop"
  /\ UNCHANGED <<variant, sankets, avgReadLength, totalRecords, semCap,
                 streamState, stream, cur, workers, semaphore, wg, sink, dropped,
                 writeStops, fwClosed, retval, procCount, results, chanClosed,
                 closerPc, consumer, fnVars>>

\* pw.WriteStop() at line 343: on an error the function returns at once
StreamWriteStop ==
  /\ variant = "stream"
  /\ mainPc = "writestop"
  /\ writeStops' = writeStops + 1
  /\ \E ok \in BOOLEAN :
       /\ mainPc' = IF ok THEN "unlockstop" ELSE "defer_stop"
       /\ retval' = IF ok THEN retval ELSE "err"
  /\ UNCHANGED <<variant, sankets, avgReadLength, totalRecords, semCap,
                 streamState, stream, cur, workers, semaphore, wg,
                 parquetWriterMutex, sink, dropped, fwClosed, procCount,
                 results, chanClosed, closerPc, consumer, fnVars>>

\* parquetWriterMutex.Unlock(); return nil
StreamUnlockStop ==
  /\ variant = "stream"
  /\ mainPc = "unlockstop"
  /\ parquetWriterMutex' = MutexFree
  /\ retval' = "ok"
  /\ mainPc' = "defer_stop"
  /\ UNCHANGED <<variant, sankets, avgReadLength, totalRecords, semCap,
                 streamState, stream, cur, workers, semaphore, wg, sink, dropped,
                 writeStops, fwClosed, procCount, results, chanClosed,
                 closerPc, consumer, fnVars>>

\* on return: defer bar.Finish(), then defer pw.WriteStop()
StreamDeferredWriteStop ==
  /\ variant = "stream"
  /\ mainPc = "defer_stop"
  /\ writeStops' = writeStops + 1
  /\ mainPc' = "defer_close"
  /\ UNCHANGED <<variant, sankets, avgReadLength, totalRecords, semCap,
                 streamState, stream, cur, workers, semaphore, wg,
                 parquetWriterMutex, sink, dropped, fwClosed, retval, procCount,
                 results, chanClosed, closerPc, consumer, fnVars>>

\* on return: defer fw.Close()
StreamDeferredClose ==
  /\ variant = "stream"
  /\ mainPc = "defer_close"
  /\ fwClosed' = TRUE
  /\ mainPc' = "returned"
  /\ UNCHANGED <<variant, sankets, avgReadLength, totalRecords, semCap,
                 streamState, stream, cur, workers, semaphore, wg,
                 parquetWriterMutex, sink, dropped, writeStops, retval,
                 procCount, results, chanClosed, closerPc, consumer, fnVars>>

\* mutant: the record count is that of the records read so far
RecordsSoFar == nread

\* the totalRecords argument the goroutine hands to processRecord: the
\* function's parameter
TotalRecordsArg == totalRecords

\* the goroutine's first statement: result := processRecord(seqCopy, idCopy, ...)
WorkerProcess(i) ==
  /\ variant = "stream"
  /\ workers[i].pc = "process"
  /\ \E order \in Orders(DOMAIN sankets) :
       workers' = [workers EXCEPT
                     ![i].result = processRecord(workers[i].seq, workers[i].id,
                                     sankets, avgReadLength, TotalRecordsArg, order),
                     ![i].pc = "lock"]
  /\ procCount' = Incr(procCount, workers[i].id)
  /\ UNCHANGED <<variant, sankets, avgReadLength, totalRecords, semCap, mainPc,
                 streamState, stream, cur, semaphore, wg, parquetWriterMutex,
                 sink, dropped, writeStops, fwClosed, retval, results,
                 chanClosed, closerPc, consumer, fnVars>>

\* parquetWriterMutex.Lock() before a row's pw.Write
WorkerLock(i) ==
  /\ variant = "stream"
  /\ workers[i].pc = "lock"
  /\ MutexIsFree
  /\ parquetWriterMutex' = i
  /\ workers' = [workers EXCEPT ![i].pc = "write"]
  /\ UNCHANGED <<variant, sankets, avgReadLength, totalRecords, semCap, mainPc,
                 streamState, stream, cur, semaphore, wg, sink, dropped,
                 writeStops, fwClosed, retval, procCount, results, chanClosed,
                 closerPc, consumer, fnVars>>

\* pw.Write(row): the row is taken, or an error is returned and logged
SinkWrite(row, ok) ==
  /\ sink' = IF ok THEN Append(sink, row) ELSE sink
  /\ dropped' = IF ok THEN dropped ELSE Append(dropped, row)

MayFail == Len(dropped) < MaxWriteFailures

\* mutant: a goroutine whose pw.Write failed ends there
StopOnWriteError(ok) == IF ok THEN "unlock" ELSE "finished"

\* after pw.Write the error, if any, is logged and the goroutine goes on to
\* parquetWriterMutex.Unlock()
AfterWrite(ok) == "unlock"

WorkerWrite(i) ==
  /\ variant = "stream"
  /\ workers[i].pc = "write"
  /\ \E ok \in {TRUE} \cup (IF MayFail THEN {FALSE} ELSE {}) :
       /\ SinkWrite(StreamRows(workers[i].result)[workers[i].next], ok)
       /\ workers' = [workers EXCEPT ![i].pc = AfterWrite(ok)]
  /\ UNCHANGED <<variant, sankets, avgReadLength, totalRecords, semCap, mainPc,
                 streamState, stream, cur, semaphore, wg, parquetWriterMutex,
                 writeStops, fwClosed, retval, procCount, results, chanClosed,
                 closerPc, consumer, fnVars>>

\* mutant: the loop over the matches ends after its first row
OneRowOnly(i) == FALSE

\* the range over result.Matches has another match to write
MoreRows(i) == workers[i].next < Len(StreamRows(workers[i].result))

\* parquetWriterMutex.Unlock(), then the next row or the end of the loop
WorkerUnlock(i) ==
  /\ variant = "stream"
  /\ workers[i].pc = "unlock"
  /\ parquetWriterMutex' = MutexFree
  /\ workers' = [workers EXCEPT
                   ![i].next = workers[i].next + 1,
                   ![i].pc = IF MoreRows(i) THEN "lock" ELSE "release"]
  /\ UNCHANGED <<variant, sankets, avgReadLength, totalRecords, semCap, mainPc,
                 streamState, stream, cur, semaphore, wg, sink, dropped,
                 writeStops, fwClosed, retval, procCount, results, chanClosed,
                 closerPc, consumer, fnVars>>

\* mutant: the goroutine ends without receiving from the semaphore
TokenKept == semaphore

\* the semaphore after <-semaphore
TokenReturned == semaphore - 1

\* bar.Increment(); <-semaphore
WorkerRelease(i) ==
  /\ variant = "stream"
  /\ workers[i].pc = "release"
  /\ semaphore > 0
  /\ semaphore' = TokenReturned
  /\ workers' = [workers EXCEPT ![i].pc = "wgdone"]
  /\ UNCHANGED <<variant, sankets, avgReadLength, totalRecords, semCap, mainPc,
                 streamState, stream, cur, wg, parquetWriterMutex, sink, dropped,
                 writeStops, fwClosed, retval, procCount, results, chanClosed,
                 closerPc, consumer, fnVars>>

\* defer wg.Done()
WorkerDone(i) ==
  /\ variant = "stream"
  /\ workers[i].pc = "wgdone"
  /\ wg' = wg - 1
  /\ workers' = [workers EXCEPT ![i].pc = "finished"]
  /\ UNCHANGED <<variant, sankets, avgReadLength, totalRecords, semCap, mainPc,
                 streamState, stream, cur, semaphore, parquetWriterMutex, sink,
                 dropped, writeStops, fwClosed, retval, procCount, results,
                 chanClosed, closerPc, consumer, fnVars>>

NextStream ==
  \/ StreamSetup
  \/ StreamReadRecord
  \/ StreamReadEOF
  \/ StreamReadError
  \/ StreamAcquire
  \/ StreamWait
  \/ StreamLockStop
  \/ StreamWriteStop
  \/ StreamUnlockStop
  \/ StreamDeferredWriteStop
  \/ StreamDeferredClose
  \/ \E i \in DOMAIN workers : WorkerProcess(i)
  \/ \E i \in DOMAIN workers : WorkerLock(i)
  \/ \E i \in DOMAIN workers : WorkerWrite(i)
  \/ \E i \in DOMAIN workers : WorkerUnlock(i)
  \/ \E i \in DOMAIN workers : WorkerRelease(i)
  \/ \E i \in DOMAIN workers : WorkerDone(i)

SpecStream == InitStream /\ [][NextStream]_vars

\* the function's own goroutine
MainStep ==
  \/ StreamSetup
  \/ StreamReadRecord
  \/ StreamReadEOF
  \/ StreamReadError
  \/ StreamAcquire
  \/ StreamWait
  \/ StreamLockStop
  \/ StreamWriteStop
  \/ StreamUnlockStop
  \/ StreamDeferredWriteStop
  \/ StreamDeferredClose

\* the step of the i-th goroutine that calls processRecord: within
\* NextStream it is WorkerProcess(i), told by the call it counts
WorkerCallsProcessRecord(i) ==
  /\ i \in DOMAIN workers
  /\ workers[i].pc = "process"
  /\ procCount' = Incr(procCount, workers[i].id)

\* the later steps of the goroutine started for the i-th record
WorkerStep(i) ==
  /\ i \in DOMAIN workers
  /\ \/ WorkerLock(i)
     \/ WorkerWrite(i)
     \/ WorkerUnlock(i)
     \/ WorkerRelease(i)
     \/ WorkerDone(i)

\* the Go scheduler runs every goroutine that can take a step
StreamFairness ==
  /\ WF_vars(MainStep)
  /\ \A i \in 1..MaxRecords :
       /\ WF_procCount(WorkerCallsProcessRecord(i))
       /\ WF_vars(WorkerStep(i))

FairSpecStream == SpecStream /\ StreamFairness

(***************************************************************************)
(* SpecCLI: processFastqFile of the CLI program.  totalRecords is what     *)
(* seqkit reported; it sizes the results channel and need not be the       *)
(* number of records the reader then returns.                              *)
(***************************************************************************)
InitCLI ==
  /\ FnIdle
  /\ variant = "cli"
  /\ sankets = PipelineCatalog
  /\ avgReadLength = Q(0, 1)
  /\ totalRecords \in 0..MaxRecords
  /\ semCap = 0
  /\ mainPc = "setup"
  /\ streamState = "open"
  /\ stream = <<>>
  /\ cur = NoRecord
  /\ workers = <<>>
  /\ semaphore = 0
  /\ wg = 0
  /\ parquetWriterMutex = MutexFree
  /\ sink = <<>>
  /\ dropped = <<>>
  /\ writeStops = 0
  /\ fwClosed = FALSE
  /\ retval = "none"
  /\ procCount = <<>>
  /\ results = <<>>
  /\ chanClosed = FALSE
  /\ closerPc = "idle"
  /\ consumer = [result |-> NoResult, next |-> 0]

\* main's reading of sanket.csv, then getTotalRecords, xopen.Ropen,
\* fastx.NewDefaultReader, make(chan, totalRecords)
CLISetup ==
  /\ variant = "cli"
  /\ mainPc = "setup"
  /\ \E outcome \in {"ok", "catalog_err", "stats_err", "open_err", "reader_err"} :
       /\ mainPc' = StartOutcome(outcome)
       /\ retval' = IF outcome = "ok" THEN "none" ELSE outcome
  /\ UNCHANGED <<variant, sankets, avgReadLength, totalRecords, semCap,
                 streamState, stream, cur, workers, semaphore, wg,
                 parquetWriterMutex, sink, dropped, writeStops, fwClosed,
                 procCount, results, chanClosed, closerPc, consumer, fnVars>>

\* reader.Read() returns a record: copy it, wg.Add(1), go func(seq, id)
CLIReadRecord ==
  /\ variant = "cli"
  /\ mainPc = "read"
  /\ nread < MaxRecords
  /\ \E seq \in StreamReads :
       LET record == [id |-> ReadIDNames[nread + 1], seq |-> seq]
       IN /\ stream' = Append(stream, record)
          /\ workers' = Append(workers,
                          [pc |-> "process", id |-> record.id, seq |-> record.seq,
                           result |-> NoResult, next |-> 1])
  /\ wg' = wg + 1
  /\ UNCHANGED <<variant, sankets, avgReadLength, totalRecords, semCap, mainPc,
                 streamState, cur, semaphore, parquetWriterMutex, sink, dropped,
                 writeStops, fwClosed, retval, procCount, results, chanClosed,
                 closerPc, consumer, fnVars>>

\* reader.Read() returns io.EOF: break, then start the goroutine that waits
\* for the workers and closes the channel
CLIReadEOF ==
  /\ variant = "cli"
  /\ mainPc = "read"
  /\ streamState' = "eof"
  /\ closerPc' = "wait"
  /\ mainPc' = "create"
  /\ UNCHANGED <<variant, sankets, avgReadLength, totalRecords, semCap, stream,
                 cur, workers, semaphore, wg, parquetWriterMutex, sink, dropped,
                 writeStops, fwClosed, retval, procCount, results, chanClosed,
                 consumer, fnVars>>

\* reader.Read() returns another error: print it and return
CLIReadError ==
  /\ variant = "cli"
  /\ mainPc = "read"
  /\ streamState' = "error"
  /\ retval' = "err"
  /\ mainPc' = "returned"
  /\ UNCHANGED <<variant, sankets, avgReadLength, totalRecords, semCap, stream,
                 cur, workers, semaphore, wg, parquetWriterMutex, sink, dropped,
                 writeStops, fwClosed, procCount, results, chanClosed,
                 closerPc, consumer, fnVars>>

\* result := processRecord(seq, id, sankets)
CLIWorkerProcess(i) ==
  /\ variant = "cli"
  /\ workers[i].pc = "process"
  /\ \E order \in Orders(DOMAIN sankets) :
       workers' = [workers EXCEPT
                     ![i].result = processRecordCLI(workers[i].seq, workers[i].id,
                                                    sankets, order),
                     ![i].pc = "send"]
  /\ procCount' = Incr(procCount, workers[i].id)
  /\ UNCHANGED <<variant, sankets, avgReadLength, totalRecords, semCap, mainPc,
                 streamState, stream, cur, semaphore, wg, parquetWriterMutex,
                 sink, dropped, writeStops, fwClosed, retval, results,
                 chanClosed, closerPc, consumer, fnVars>>

\* the results channel has room in its buffer
HasRoom == Len(results) < totalRecords

\* results <- result into the buffer
CLIWorkerSend(i) ==
  /\ variant = "cli"
  /\ workers[i].pc = "send"
  /\ HasRoom
  /\ results' = Append(results, workers[i].result)
  /\ workers' = [workers EXCEPT ![i].pc = "wgdone"]
  /\ UNCHANGED <<variant, sankets, avgReadLength, totalRecords, semCap, mainPc,
                 streamState, stream, cur, semaphore, wg, parquetWriterMutex,
                 sink, dropped, writeStops, fwClosed, retval, procCount,
                 chanClosed, closerPc, consumer, fnVars>>

\* results <- result on an unbuffered channel: straight to the range loop
\* waiting to receive
CLIWorkerHandoff(i) ==
  /\ variant = "cli"
  /\ workers[i].pc = "send"
  /\ totalRecords = 0
  /\ mainPc = "recv"
  /\ consumer' = [result |-> workers[i].result, next |-> 1]
  /\ mainPc' = "write"
  /\ workers' = [workers EXCEPT ![i].pc = "wgdone"]
  /\ UNCHANGED <<variant, sankets, avgReadLength, totalRecords, semCap,
                 streamState, stream, cur, semaphore, wg, parquetWriterMutex,
                 sink, dropped, writeStops, fwClosed, retval, procCount,
                 results, chanClosed, closerPc, fnVars>>

\* bar.Increment(); defer wg.Done()
CLIWorkerDone(i) ==
  /\ variant = "cli"
  /\ workers[i].pc = "wgdone"
  /\ wg' = wg - 1
  /\ workers' = [workers EXCEPT ![i].pc = "finished"]
  /\ UNCHANGED <<variant, sankets, avgReadLength, totalRecords, semCap, mainPc,
                 streamState, stream, cur, semaphore, parquetWriterMutex, sink,
                 dropped, writeStops, fwClosed, retval, procCount, results,
                 chanClosed, closerPc, consumer, fnVars>>

\* mutant: Wait() does not wait
WaitSkipped == TRUE

\* wg.Wait() of the closing goroutine can return
CloserWaitReturns == wg = 0

\* the closing goroutine: wg.Wait()
CLICloserWait ==
  /\ variant = "cli"
  /\ closerPc = "wait"
  /\ CloserWaitReturns
  /\ closerPc' = "close"
  /\ UNCHANGED <<variant, sankets, avgReadLength, totalRecords, semCap, mainPc,
                 streamState, stream, cur, workers, semaphore, wg,
                 parquetWriterMutex, sink, dropped, writeStops, fwClosed,
                 retval, procCount, results, chanClosed, consumer, fnVars>>

\* the closing goroutine: close(results); bar.Finish()
CLICloserClose ==
  /\ variant = "cli"
  /\ closerPc = "close"
  /\ chanClosed' = TRUE
  /\ closerPc' = "done"
  /\ UNCHANGED <<variant, sankets, avgReadLength, totalRecords, semCap, mainPc,
                 streamState, stream, cur, workers, semaphore, wg,
                 parquetWriterMutex, sink, dropped, writeStops, fwClosed,
                 retval, procCount, results, consumer, fnVars>>

\* local.NewLocalFileWriter, writer.NewParquetWriter: on an error, return
CLICreate ==
  /\ variant = "cli"
  /\ mainPc = "create"
  /\ \E outcome \in {"ok", "file_err", "writer_err"} :
       /\ mainPc' = IF outcome = "ok" THEN "recv" ELSE "returned"
       /\ retval' = IF outcome = "ok" THEN "none" ELSE "err"
  /\ UNCHANGED <<variant, sankets, avgReadLength, totalRecords, semCap,
                 streamState, stream, cur, workers, semaphore, wg,
                 parquetWriterMutex, sink, dropped, writeStops, fwClosed,
                 procCount, results, chanClosed, closerPc, consumer, fnVars>>

\* for result := range results: a buffered result is received
CLIRecv ==
  /\ variant = "cli"
  /\ mainPc = "recv"
  /\ results # <<>>
  /\ consumer' = [result |-> Head(results), next |-> 1]
  /\ results' = Tail(results)
  /\ mainPc' = "write"
  /\ UNCHANGED <<variant, sankets, avgReadLength, totalRecords, semCap,
                 streamState, stream, cur, workers, semaphore, wg,
                 parquetWriterMutex, sink, dropped, writeStops, fwClosed,
                 retval, procCount, chanClosed, closerPc, fnVars>>

\* for result := range results: the channel is closed and drained
CLIRecvClosed ==
  /\ variant = "cli"
  /\ mainPc = "recv"
  /\ results = <<>>
  /\ chanClosed
  /\ mainPc' = "writestop"
  /\ UNCHANGED <<variant, sankets, avgReadLength, totalRecords, semCap,
                 streamState, stream, cur, workers, semaphore, wg,
                 parquetWriterMutex, sink, dropped, writeStops, fwClosed,
                 retval, procCount, results, chanClosed, closerPc, consumer,
                 fnVars>>

\* pw.Write of the next row of the received result; an error is printed
CLIWrite ==
  /\ variant = "cli"
  /\ mainPc = "write"
  /\ \E ok \in {TRUE} \cup (IF MayFail THEN {FALSE} ELSE {}) :
       SinkWrite(CLIRows(consumer.result)[consumer.next], ok)
  /\ consumer' = [consumer EXCEPT !.next = consumer.next + 1]
  /\ mainPc' = IF consumer.next < Len(CLIRows(consumer.result))
               THEN "write" ELSE "recv"
  /\ UNCHANGED <<variant, sankets, avgReadLength, totalRecords, semCap,
                 streamState, stream, cur, workers, semaphore, wg,
                 parquetWriterMutex, writeStops, fwClosed, retval, procCount,
                 results, chanClosed, closerPc, fnVars>>

\* pw.WriteStop() (an error is printed); fw.Close(); return
CLIWriteStop ==
  /\ variant = "cli"
  /\ mainPc = "writestop"
  /\ writeStops' = writeStops + 1
  /\ fwClosed' = TRUE
  /\ retval' = "ok"
  /\ mainPc' = "returned"
  /\ UNCHANGED <<variant, sankets, avgReadLength, totalRecords, semCap,
                 streamState, stream, cur, workers, semaphore, wg,
                 parquetWriterMutex, sink, dropped, procCount, results,
                 chanClosed, closerPc, consumer, fnVars>>

NextCLI ==
  \/ CLISetup
  \/ CLIReadRecord
  \/ CLIReadEOF
  \/ CLIReadError
  \/ CLICloserWait
  \/ CLICloserClose
  \/ CLICreate
  \/ CLIRecv
  \/ CLIRecvClosed
  \/ CLIWrite
  \/ CLIWriteStop
  \/ \E i \in DOMAIN workers : CLIWorkerProcess(i)
  \/ \E i \in DOMAIN workers : CLIWorkerSend(i)
  \/ \E i \in DOMAIN workers : CLIWorkerHandoff(i)
  \/ \E i \in DOMAIN workers : CLIWorkerDone(i)

SpecCLI == InitCLI /\ [][NextCLI]_vars

(***************************************************************************)
(* SpecRun: a run of either program.                                       *)
(***************************************************************************)
InitRun == InitStream \/ InitCLI

NextRun == NextStream \/ NextCLI

SpecRun == InitRun /\ [][NextRun]_vars

(***************************************************************************)
(* Vocabulary of the properties                                            *)
(***************************************************************************)
\* sub occurs in s as a run of consecutive, equal characters
LiteralSubstring(sub, s) ==
  \E start \in 1..(Len(s) + 1) :
    \A j \in 1..Len(sub) : start + j - 1 <= Len(s) /\ s[start + j - 1] = sub[j]

\* the markers of catalog cat whose fragment occurs in seq
MatchingSIDs(seq, cat) ==
  {sid \in DOMAIN cat : LiteralSubstring(cat[sid].Sanket, seq)}

\* every row handed to pw.Write so far, accepted or not
Handed == sink \o dropped

HandedCount(P(_)) == Cardinality({n \in 1..Len(Handed) : P(Handed[n])})

InFlight ==
  {i \in DOMAIN workers :
     workers[i].pc \in {"process", "lock", "write", "unlock", "release"}}

Completed == variant = "stream" /\ mainPc = "returned" /\ streamState = "eof"

IsPrefix(s, t) == Len(s) <= Len(t) /\ SubSeq(t, 1, Len(s)) = s

(***************************************************************************)
(* C1: when a run whose stream ended with end-of-stream has returned,      *)
(* every record read was processed by exactly one processRecord            *)
(* invocation, in a goroutine of its own that has finished, and its rows   *)
(* were handed to pw.Write exactly once: one sentinel row for a record no  *)
(* marker matches, one row per matching marker otherwise; whatever the     *)
(* semaphore's capacity and the interleaving.                              *)
(***************************************************************************)
C1_EveryRecordHandedOnce ==
  Completed =>
    /\ Len(workers) = nread
    /\ DOMAIN procCount = {stream[n].id : n \in 1..nread}
    /\ \A n \in 1..nread :
         LET rec == stream[n]
             M == MatchingSIDs(rec.seq, sankets)
             IsOf(row) == row.ReadID = rec.id
         IN /\ workers[n].pc = "finished"
            /\ workers[n].id = rec.id /\ workers[n].seq = rec.seq
            /\ procCount[rec.id] = 1
            /\ HandedCount(IsOf) = IF M = {} THEN 1 ELSE Cardinality(M)
            /\ M = {} =>
                 \A k \in 1..Len(Handed) :
                   IsOf(Handed[k]) => Handed[k].MatchedSanket = NoMatchFound
            /\ \A sid \in M :
                 LET IsMarker(row) == IsOf(row) /\ row.SID = sid
                 IN HandedCount(IsMarker) = 1
    /\ Cardinality({Handed[k].ReadID : k \in 1..Len(Handed)}) = nread

\* a completed run of more records than the budget, with a matching and a
\* non-matching record
C1_Witness ==
  /\ Completed
  /\ nread = 2
  /\ semCap < nread
  /\ \E n \in 1..nread : MatchingSIDs(stream[n].seq, sankets) = {}
  /\ \E n \in 1..nread : Cardinality(MatchingSIDs(stream[n].seq, sankets)) = 2
  /\ Len(Handed) = 3

(***************************************************************************)
(* C2: in a run whose stream ends with end-of-stream, pw.WriteStop is      *)
(* invoked exactly once, and only after every dispatched goroutine has     *)
(* written its rows and released its semaphore token.                      *)
(***************************************************************************)
C2_FinalizeExactlyOnce ==
  /\ Completed => writeStops = 1
  /\ (variant = "stream" /\ streamState = "eof" /\ writeStops > 0) =>
       /\ Len(workers) = nread
       /\ InFlight = {}

(***************************************************************************)
(* C3: at most one goroutine is between parquetWriterMutex.Lock() and      *)
(* Unlock() around pw.Write at any time.                                   *)
(***************************************************************************)
InsideWrite == {i \in DOMAIN workers : workers[i].pc \in {"write", "unlock"}}

C3_AtMostOneWriter ==
  variant = "stream" =>
    /\ Cardinality(InsideWrite) <= 1
    /\ \A i \in InsideWrite : parquetWriterMutex = i

\* one goroutine writes a per-match row while another, which has a no-match
\* row to write, waits for the mutex
C3_Witness ==
  \E i, j \in DOMAIN workers :
    /\ workers[i].pc = "write" /\ workers[i].result.MatchesFound
    /\ workers[j].pc = "lock" /\ ~workers[j].result.MatchesFound

(***************************************************************************)
(* C4: the goroutines started and not yet past <-semaphore never outnumber *)
(* the semaphore's capacity, which is at most 30, and each holds one token.*)
(***************************************************************************)
C4_BudgetBound ==
  variant = "stream" =>
    /\ Cardinality(InFlight) <= semCap
    /\ semCap <= SemaphoreCapacity
    /\ semaphore = Cardinality(InFlight)

\* the pool is saturated and the dispatcher holds a record it cannot dispatch
C4_Witness ==
  /\ mainPc = "acquire"
  /\ Cardinality(InFlight) = semCap
  /\ ~ENABLED StreamAcquire

(***************************************************************************)
(* C10: a read error other than end-of-stream aborts the run: the function *)
(* returns an error, no record is read or dispatched afterwards, and the   *)
(* rows the sink already holds stay.                                       *)
(***************************************************************************)
AbortPcs == {"defer_stop", "defer_close", "returned"}

C10_ReadErrorAborts ==
  [][ /\ streamState' = "error" => (retval' = "err" /\ mainPc' \in AbortPcs)
      /\ streamState = "error" =>
           /\ streamState' = "error"
           /\ stream' = stream
           /\ Len(workers') = Len(workers)
           /\ IsPrefix(sink, sink') ]_vars

\* the run was aborted after a row had been written and has returned; the
\* row is still there
C10_Witness ==
  /\ variant = "stream"
  /\ streamState = "error"
  /\ mainPc = "returned"
  /\ retval = "err"
  /\ Len(sink) > 0
  /\ nread < MaxRecords

(***************************************************************************)
(* C5: the totalCoverage of a record is the number of distinct serotypes   *)
(* that have a matched marker in it, and every row built for a matching    *)
(* record carries that number; two matched markers of one serotype give 1. *)
(***************************************************************************)
MatchedSerotypes(seq, cat) == {cat[sid].Serotype : sid \in MatchingSIDs(seq, cat)}

C5_CoverageCountsSerotypes ==
  ppc \in {"processed", "emitted"} =>
    /\ pout.result.TotalCoverage = Cardinality(MatchedSerotypes(pin.seq, pin.cat))
    /\ (ppc = "emitted" /\ pout.result.MatchesFound) =>
         /\ Len(pout.rows) = Cardinality(MatchingSIDs(pin.seq, pin.cat))
         /\ \A k \in 1..Len(pout.rows) :
              pout.rows[k].TotalCoverage =
                Cardinality(MatchedSerotypes(pin.seq, pin.cat))

(***************************************************************************)
(* C6: a marker of the catalog is in the match set processRecord returns   *)
(* exactly when its fragment is a literal, case-sensitive substring of the *)
(* read; no marker is in it twice; with no such marker the match set is    *)
(* empty and MatchesFound is false.                                        *)
(***************************************************************************)
C6_MatchIffSubstring ==
  (ppc \in {"processed", "emitted"} /\ pout.fn = "api") =>
    LET ms == pout.result.Matches
        M == MatchingSIDs(pin.seq, pin.cat)
    IN /\ {ms[k].SID : k \in 1..Len(ms)} = M
       /\ \A k, l \in 1..Len(ms) : ms[k].SID = ms[l].SID => k = l
       /\ \A k \in 1..Len(ms) : ms[k].Sanket = pin.cat[ms[k].SID].Sanket
       /\ M = {} => (ms = <<>> /\ ~pout.result.MatchesFound)

\* a read holding "A" but no "a", against a catalog with the marker "a" and
\* a marker that does occur in the read
C6_Witness ==
  /\ ppc = "processed"
  /\ pout.fn = "api"
  /\ Len(pout.result.Matches) = 1
  /\ \E sid \in DOMAIN pin.cat :
       /\ pin.cat[sid].Sanket = <<"a">>
       /\ sid \notin MatchingSIDs(pin.seq, pin.cat)
  /\ \E i \in 1..Len(pin.seq) : pin.seq[i] = "A"

(***************************************************************************)
(* C7: the score calculateBScore returns is a number in [0,1] on every     *)
(* input.                                                                  *)
(***************************************************************************)
InUnitInterval(x) == IsNum(x) /\ 0 <= x.n /\ x.n <= Den(x)

C7_ScoreInUnitInterval ==
  (ppc = "scored" /\ pout.fn = "api") => InUnitInterval(pout.score)

(***************************************************************************)
(* C8: the GC percentage of an empty sequence is 0, in the result of       *)
(* processRecord and in every row built from it.                           *)
(***************************************************************************)
C8_EmptySequenceGCZero ==
  (ppc \in {"processed", "emitted"} /\ pin.seq = <<>>) =>
    /\ pout.result.GCPercentage = Q(0, 1)
    /\ \A k \in 1..Len(pout.rows) : pout.rows[k].GCPercentage = Q(0, 1)

(***************************************************************************)
(* C9: the rows built for a record no marker matches are exactly one row,  *)
(* with score 0, totalCoverage 0, matched marker "No Match Found" and      *)
(* serotype "Unassigned" (API) or "N/A" (CLI); no row built for a record   *)
(* with a match carries those sentinel values.                             *)
(***************************************************************************)
C9_NoMatchOneSentinelRow ==
  ppc = "emitted" =>
    LET M == MatchingSIDs(pin.seq, pin.cat)
        rows == pout.rows
    IN /\ M = {} =>
            /\ Len(rows) = 1
            /\ rows[1].ReadID = pout.result.ReadID
            /\ rows[1].BScore = Q(0, 1)
            /\ rows[1].TotalCoverage = 0
            /\ rows[1].MatchedSanket = NoMatchFound
            /\ rows[1].Serotype = IF pout.fn = "api" THEN "Unassigned" ELSE "N/A"
       /\ M # {} =>
            \A k \in 1..Len(rows) :
              /\ rows[k].MatchedSanket # NoMatchFound
              /\ rows[k].Serotype \notin {"Unassigned", "N/A"}

\* the row of a read that holds none of the two markers of its catalog
C9_Witness ==
  /\ ppc = "emitted"
  /\ Cardinality(DOMAIN pin.cat) = 2
  /\ MatchingSIDs(pin.seq, pin.cat) = {}
  /\ Len(pin.seq) > 0
  /\ Len(pout.rows) = 1

(***************************************************************************)
(* C11: a pw.Write that fails does not stop the run.  The step in which a  *)
(* row is refused changes neither the dispatcher's position nor the value  *)
(* to return, and leaves the writing goroutine before its Unlock(); every  *)
(* goroutine past its last Unlock() has handed all rows of its record to   *)
(* pw.Write; and a run that reached end-of-stream and returned after a     *)
(* refused row has processed every record, handed every row, got back      *)
(* every semaphore token and called WriteStop, and returns an error only   *)
(* if its own WriteStop at line 343 failed.                                *)
(***************************************************************************)
RowCount(seq) ==
  IF MatchingSIDs(seq, sankets) = {} THEN 1
  ELSE Cardinality(MatchingSIDs(seq, sankets))

HandedOf(id) == Cardinality({n \in 1..Len(Handed) : Handed[n].ReadID = id})

PastWriting == {"release", "wgdone", "finished"}

C11_WriteFailureStep ==
  dropped' # dropped =>
    /\ mainPc' = mainPc /\ retval' = retval /\ streamState' = streamState
    /\ \E i \in DOMAIN workers :
         /\ workers[i].pc = "write"
         /\ workers'[i].pc = "unlock"
         /\ parquetWriterMutex' = i
         /\ \A j \in DOMAIN workers \ {i} : workers'[j] = workers[j]

C11_WriteFailureState ==
  variant = "stream" =>
    /\ \A i \in DOMAIN workers :
         workers[i].pc \in PastWriting =>
           HandedOf(workers[i].id) = RowCount(workers[i].seq)
    /\ (Completed /\ dropped # <<>>) =>
         /\ Len(workers) = nread
         /\ \A i \in DOMAIN workers : workers[i].pc = "finished"
         /\ semaphore = 0 /\ wg = 0
         /\ writeStops >= 1
         /\ fwClosed
         /\ retval = "err" => parquetWriterMutex = MainHolder

C11_WriteFailureDoesNotHalt ==
  [](C11_WriteFailureState) /\ [][C11_WriteFailureStep]_vars

\* the first row of a two-row record was refused, its second row and the row
\* of the other record were written, and the run returned nil
C11_Witness ==
  /\ Completed
  /\ retval = "ok"
  /\ nread = 2
  /\ Len(dropped) = 1
  /\ Len(sink) = 2
  /\ \E n \in 1..Len(sink) : sink[n].ReadID = dropped[1].ReadID
  /\ \E n \in 1..Len(sink) : sink[n].ReadID # dropped[1].ReadID

(***************************************************************************)
(* C12: when the start of a run fails (the catalog cannot be loaded, the   *)
(* input cannot be opened or its reader initialised, the run statistics    *)
(* cannot be had, and in the streaming program also when the output file   *)
(* or its writer cannot be created), the run returns that failure with no  *)
(* record read, no goroutine started, no processRecord call made and no    *)
(* row handed to the sink; nothing is dispatched before the start is over. *)
(***************************************************************************)
StartErrors ==
  {"catalog_err", "stats_err", "open_err", "reader_err", "file_err", "writer_err"}

NothingDispatched ==
  /\ stream = <<>>
  /\ workers = <<>>
  /\ procCount = <<>>
  /\ Handed = <<>>
  /\ results = <<>>
  /\ wg = 0
  /\ semaphore = 0

C12_FatalAtStartAborts ==
  /\ mainPc = "setup" => NothingDispatched
  /\ retval \in StartErrors =>
       /\ mainPc = "returned"
       /\ NothingDispatched
       /\ writeStops = 0

\* a run of either program that has returned a failure of the catalog, the
\* input stream or the run statistics
C12_Witness ==
  /\ mainPc = "returned"
  /\ retval \in {"catalog_err", "stats_err", "open_err", "reader_err"}
  /\ ~ENABLED NextRun

(***************************************************************************)
(* C13: the base score depends only on what the repeat-count and           *)
(* palindrome-count fields parse to.  A field counts as positive exactly   *)
(* when it writes a decimal integer greater than 0 that an int holds (a    *)
(* field that does not parse as one counts as 0 and a score is still       *)
(* returned); where the coverage                                           *)
(* and length terms are 0 the score is the base: 0.35 with both fields     *)
(* positive, 0.2 with one, 0 with none (0.3, 0.15, 0 in the CLI program);  *)
(* and on every input the score is the one got with the fields replaced by *)
(* "1" where positive and "0" where not.                                   *)
(***************************************************************************)
IsDigit(c) == c \in {"0", "1", "2", "3", "4", "5", "6", "7", "8", "9"}

PositiveInt(s) ==
  LET body == IF Len(s) > 0 /\ s[1] = "+" THEN Tail(s) ELSE s
  IN /\ body # <<>>
     /\ \A i \in 1..Len(body) : IsDigit(body[i])
     /\ \E i \in 1..Len(body) : body[i] # "0"
     /\ ~Exceeds(body, MaxInt64Digits)

Canonical(s) == IF PositiveInt(s) THEN <<"1">> ELSE <<"0">>

ExpectedBase(fn, ssrCount, pCount) ==
  LET both == PositiveInt(ssrCount) /\ PositiveInt(pCount)
      one == PositiveInt(ssrCount) \/ PositiveInt(pCount)
  IN IF fn = "api"
     THEN (IF both THEN Q(35, 100) ELSE IF one THEN Q(2, 10) ELSE Q(0, 1))
     ELSE (IF both THEN Q(3, 10) ELSE IF one THEN Q(15, 100) ELSE Q(0, 1))

\* the coverage term and the length term of the score are both 0
OnlyBase ==
  /\ pin.totalCoverage = 0
  /\ pin.sLen = 0
  /\ pout.fn = "api" => (pin.avg # Q(0, 1) /\ pin.total # 0)

C13_BaseFromParsedCounts ==
  ppc = "scored" =>
    /\ OnlyBase => pout.score = ExpectedBase(pout.fn, pin.ssrCount, pin.pCount)
    /\ pout.score =
         IF pout.fn = "api"
         THEN calculateBScore(pin.totalCoverage, pin.sLen, Canonical(pin.ssrCount),
                              Canonical(pin.pCount), pin.avg, pin.total)
         ELSE calculateBScoreCLI(pin.totalCoverage, pin.sLen,
                                 Canonical(pin.ssrCount), Canonical(pin.pCount))

\* a field that starts with a digit but is no integer, next to a positive
\* one: the base is that of one positive field
C13_Witness ==
  /\ ppc = "scored"
  /\ pout.fn = "api"
  /\ OnlyBase
  /\ pin.ssrCount = <<"1", "x">>
  /\ pin.pCount = <<"3">>
  /\ pout.score = Q(2, 10)

(***************************************************************************)
(* C14: in every result of processRecord, MatchesFound is true exactly     *)
(* when Matches is not empty, TotalCoverage is not negative, and           *)
(* TotalCoverage is 0 exactly when Matches is empty.                       *)
(***************************************************************************)
C14_OutcomeInvariant ==
  ppc \in {"processed", "emitted"} =>
    LET r == pout.result
    IN /\ r.MatchesFound = (Len(r.Matches) > 0)
       /\ r.TotalCoverage >= 0
       /\ (r.TotalCoverage = 0) = (Len(r.Matches) = 0)

\* a result with two matches of one serotype, and so TotalCoverage 2
C14_Witness ==
  /\ ppc = "processed"
  /\ pout.fn = "api"
  /\ pout.result.MatchesFound
  /\ Len(pout.result.Matches) = 2
  /\ pout.result.Matches[1].Serotype = pout.result.Matches[2].Serotype
  /\ pout.result.TotalCoverage = 2

(***************************************************************************)
(* C15: a goroutine gives its semaphore token back only after every row of *)
(* its record (one per match, or the one no-match row) has been handed to  *)
(* pw.Write: the step that takes a token out of the semaphore is taken by  *)
(* a goroutine that is past its last row, and takes one token; a goroutine *)
(* that has given its token back never holds one again; the tokens held    *)
(* are those of the goroutines that have not given theirs back; and every  *)
(* goroutine started does give its token back.                             *)
(***************************************************************************)
Released == {i \in DOMAIN workers : workers[i].pc \in {"wgdone", "finished"}}

C15_ReleaseStep ==
  /\ semaphore' < semaphore =>
       /\ semaphore' = semaphore - 1
       /\ \E i \in DOMAIN workers :
            /\ workers[i].pc = "release"
            /\ workers'[i].pc = "wgdone"
            /\ workers[i].next = Len(StreamRows(workers[i].result)) + 1
            /\ HandedOf(workers[i].id) = RowCount(workers[i].seq)
  /\ \A i \in Released : i \in DOMAIN workers' /\ workers'[i].pc \in {"wgdone", "finished"}

C15_ReleaseState ==
  variant = "stream" =>
    /\ \A i \in Released :
         /\ HandedOf(workers[i].id) = RowCount(workers[i].seq)
         /\ HandedOf(workers[i].id) = Len(StreamRows(workers[i].result))
    /\ semaphore = Len(workers) - Cardinality(Released)

C15_SlotReleasedAfterRows ==
  /\ [](C15_ReleaseState)
  /\ [][C15_ReleaseStep]_vars
  /\ \A i \in 1..MaxRecords :
       (i \in DOMAIN workers) ~> (i \in Released)

\* one goroutine has written both rows of its record and given its token
\* back while another still holds its token
C15_Witness ==
  \E i, j \in DOMAIN workers :
    /\ i \in Released
    /\ Len(StreamRows(workers[i].result)) = 2
    /\ workers[j].pc \in {"process", "lock"}
    /\ semaphore = 1

(***************************************************************************)
(* C16: a run started with the mutex free does not deadlock.  With every   *)
(* goroutine scheduled whenever it can take a step, for the capacities 1,  *)
(* 2 and 30: as long as the function has not returned or a goroutine has   *)
(* not finished, some goroutine can take a step; a dispatcher waiting for  *)
(* a token gets one; a goroutine waiting for the mutex gets it, and every  *)
(* goroutine finishes; when the stream has ended without a read error,     *)
(* wg.Wait() returns, the function takes the mutex for WriteStop and       *)
(* returns.                                                                *)
(***************************************************************************)
Unfinished == {i \in DOMAIN workers : workers[i].pc # "finished"}

CanStep ==
  \/ ENABLED MainStep
  \/ \E i \in DOMAIN workers : workers[i].pc = "process" \/ ENABLED WorkerStep(i)

C16_NoDeadlock ==
  /\ []((mainPc # "returned" \/ Unfinished # {}) => CanStep)
  /\ (mainPc = "acquire") ~> (mainPc = "read")
  /\ \A i \in 1..MaxRecords :
       /\ (i \in DOMAIN workers /\ workers[i].pc = "lock")
            ~> (i \in DOMAIN workers /\ workers[i].pc = "write")
       /\ (i \in DOMAIN workers) ~> (i \in DOMAIN workers /\ workers[i].pc = "finished")
  /\ (mainPc = "wait") ~> (mainPc = "lockstop")
  /\ (mainPc = "lockstop") ~> (mainPc = "writestop")
  /\ (streamState = "eof") ~> (Completed /\ Unfinished = {} /\ writeStops > 0)

\* the dispatcher waits for a token while the one goroutine that holds it
\* waits for the mutex; the run goes on from there
C16_Witness ==
  /\ variant = "stream"
  /\ mainPc = "acquire"
  /\ semCap = 1
  /\ ~ENABLED MainStep
  /\ \E i \in DOMAIN workers : workers[i].pc = "lock"

(***************************************************************************)
(* C17: once pw.WriteStop has been called or the file closed, no goroutine *)
(* hands a row to pw.Write any more, on any path through the function,     *)
(* the return on a read error included.                                    *)
(***************************************************************************)
Finalized == writeStops > 0 \/ fwClosed

C17_NoWriteAfterFinalize ==
  [][(variant = "stream" /\ Finalized) => Handed' = Handed]_vars

(***************************************************************************)
(* C18: when processFastqStream has returned, with nil or with an error,   *)
(* and the goroutines it started have finished, parquetWriterMutex is not  *)
(* locked.                                                                 *)
(***************************************************************************)
C18_MutexFreeOnReturn ==
  (variant = "stream" /\ mainPc = "returned" /\ Unfinished = {}) =>
    parquetWriterMutex = MutexFree

(***************************************************************************)
(* C19: the rows a completed run has handed to pw.Write are, as a          *)
(* multiset, fixed by the stream, the catalog and the run statistics: for  *)
(* each record read they are the rows of processRecord on that record      *)
(* alone, whatever the interleaving of the goroutines, the semaphore's     *)
(* capacity and the order in which the catalog map was visited; only their *)
(* order varies.                                                           *)
(***************************************************************************)
CountIn(seq, x) == Cardinality({n \in 1..Len(seq) : seq[n] = x})

SameRows(s, t) ==
  /\ Len(s) = Len(t)
  /\ \A n \in 1..Len(s) : CountIn(s, s[n]) = CountIn(t, s[n])

RECURSIVE RowsWithID(_, _)
RowsWithID(rows, id) ==
  IF rows = <<>> THEN <<>>
  ELSE IF Head(rows).ReadID = id
       THEN <<Head(rows)>> \o RowsWithID(Tail(rows), id)
       ELSE RowsWithID(Tail(rows), id)

FixedOrder == CHOOSE order \in Orders(DOMAIN sankets) : TRUE

\* the rows of one record taken alone
RowsOfRecord(rec) ==
  StreamRows(processRecord(rec.seq, rec.id, sankets, avgReadLength, totalRecords,
                           FixedOrder))

C19_RowsIndependentOfInterleaving ==
  Completed =>
    /\ \A n \in 1..nread :
         SameRows(RowsWithID(Handed, stream[n].id), RowsOfRecord(stream[n]))
    /\ \A k \in 1..Len(Handed) : \E n \in 1..nread : Handed[k].ReadID = stream[n].id

\* two records of two rows each whose rows were written alternately, the
\* first in the other order than the one the catalog is visited in above
C19_Witness ==
  /\ Completed
  /\ Len(sink) = 4
  /\ sink[1].ReadID # sink[2].ReadID
  /\ sink[1].ReadID = sink[3].ReadID
  /\ sink[1].SID # RowsOfRecord(stream[1])[1].SID

(***************************************************************************)
(* C20: in the result of processRecord every matched marker has one entry, *)
(* whose BScore is the value of calculateBScore for that marker and the    *)
(* record's final TotalCoverage, the count over all markers of the         *)
(* catalog; every row built from the result carries that TotalCoverage and *)
(* the BScore of its match.                                                *)
(***************************************************************************)
C20_ScoredWithFinalCoverage ==
  (ppc \in {"processed", "emitted"} /\ pout.fn = "api") =>
    LET r == pout.result
        final == Cardinality(MatchingSIDs(pin.seq, pin.cat))
    IN /\ r.TotalCoverage = final
       /\ Len(r.Matches) = final
       /\ \A k \in 1..Len(r.Matches) :
            LET info == pin.cat[r.Matches[k].SID]
            IN r.Matches[k].BScore =
                 calculateBScore(final, info.SLen, info.SSRCount, info.PCount,
                                 pin.stats.avg, pin.stats.total)
       /\ (ppc = "emitted" /\ r.MatchesFound) =>
            /\ Len(pout.rows) = Len(r.Matches)
            /\ \A k \in 1..Len(pout.rows) :
                 /\ pout.rows[k].TotalCoverage = final
                 /\ pout.rows[k].SID = r.Matches[k].SID
                 /\ pout.rows[k].BScore = r.Matches[k].BScore

\* two matches, the first of which would score lower with a coverage of 1
C20_Witness ==
  /\ ppc = "emitted"
  /\ pout.fn = "api"
  /\ Len(pout.rows) = 2
  /\ pout.rows[1].TotalCoverage = 2
  /\ pout.rows[2].TotalCoverage = 2
  /\ LET info == pin.cat[pout.rows[1].SID]
     IN pout.rows[1].BScore #
          calculateBScore(1, info.SLen, info.SSRCount, info.PCount,
                          pin.stats.avg, pin.stats.total)

(***************************************************************************)
(* C21: in processFastqFile only the function's own goroutine, in its      *)
(* range over the results channel, hands rows to pw.Write and calls        *)
(* WriteStop.  The channel is closed only when every goroutine started has *)
(* sent its result and finished; WriteStop is never called twice and is    *)
(* called only with the channel closed and empty and every row of every    *)
(* record handed to pw.Write; a run that gets to its end has called it     *)
(* once.                                                                   *)
(***************************************************************************)
Delivered == {i \in DOMAIN workers : workers[i].pc \in {"wgdone", "finished"}}

C21_ConsumerStep ==
  /\ Handed' # Handed => (mainPc = "write" /\ Len(Handed') = Len(Handed) + 1)
  /\ writeStops' # writeStops => (mainPc = "writestop" /\ writeStops' = 1)
  /\ (~chanClosed /\ chanClosed') => (closerPc = "close" /\ mainPc # "read")

C21_ConsumerState ==
  variant = "cli" =>
    /\ chanClosed =>
         /\ Len(workers) = nread
         /\ \A i \in DOMAIN workers : workers[i].pc = "finished"
    /\ writeStops <= 1
    /\ (writeStops = 1 \/ mainPc = "writestop") =>
         /\ chanClosed
         /\ results = <<>>
         /\ \A n \in 1..nread : HandedOf(stream[n].id) = RowCount(stream[n].seq)
    /\ (mainPc = "returned" /\ retval = "ok") => writeStops = 1
    /\ \A i \in Delivered :
         \/ \E k \in 1..Len(results) : results[k].ReadID = workers[i].id
         \/ consumer.result.ReadID = workers[i].id
         \/ HandedOf(workers[i].id) = RowCount(workers[i].seq)

C21_SingleConsumer == [](C21_ConsumerState) /\ [][C21_ConsumerStep]_vars

\* a finished run of two records, one with two rows and one with one, on a
\* channel with room for one result
C21_Witness ==
  /\ variant = "cli"
  /\ mainPc = "returned"
  /\ retval = "ok"
  /\ nread = 2
  /\ totalRecords = 1
  /\ Len(Handed) = 3
  /\ writeStops = 1

(***************************************************************************)
(* C22: once processFastqFile has returned, on any path, no goroutine it   *)
(* started is left waiting to send its result on a full results channel    *)
(* that nothing receives from any more.                                    *)
(***************************************************************************)
BlockedOnSend == {i \in DOMAIN workers : workers[i].pc = "send" /\ ~HasRoom}

C22_WorkersTerminate ==
  (variant = "cli" /\ mainPc = "returned") => BlockedOnSend = {}

(***************************************************************************)
(* C23: the score calculateBScore of the streaming program returns is      *)
(* clamp01(base + min(totalCoverage / ceiling, 1) * 0.37                   *)
(*              + min(sLen / 25, 1) * 0.4)                                 *)
(* with ceiling = avgReadLength * totalRecords / 11000 and the base of     *)
(* C13; and for a matched marker, whose totalCoverage is at least 1, the   *)
(* score does not decrease when totalCoverage grows or when sLen grows.    *)
(***************************************************************************)
FLeq(x, y) == IsNum(x) /\ IsNum(y) /\ x.n * Den(y) <= y.n * Den(x)

ClaimedScore(totalCoverage, sLen, ssrCount, pCount, avg, total) ==
  LET ceiling == FDiv(FMul(avg, FInt(total)), FInt(11000))
      coverageTerm ==
        FMul(FMin(FDiv(FInt(totalCoverage), ceiling), FInt(1)), Q(37, 100))
      lengthTerm == FMul(FMin(FDiv(FInt(sLen), FInt(25)), FInt(1)), Q(4, 10))
      sum == FAdd(FAdd(ExpectedBase("api", ssrCount, pCount), coverageTerm),
                  lengthTerm)
  IN FMin(FMax(sum, FInt(0)), FInt(1))

ScoreAt(totalCoverage, sLen) ==
  calculateBScore(totalCoverage, sLen, pin.ssrCount, pin.pCount, pin.avg,
                  pin.total)

C23_ScoreFormulaMonotone ==
  (ppc = "scored" /\ pout.fn = "api") =>
    /\ pout.score = ClaimedScore(pin.totalCoverage, pin.sLen, pin.ssrCount,
                                 pin.pCount, pin.avg, pin.total)
    /\ pin.totalCoverage >= 1 =>
         /\ \A c \in pin.totalCoverage..(MaxCoverage + 1) :
              FLeq(pout.score, ScoreAt(c, pin.sLen))
         /\ \A l \in {x \in SLens : x >= pin.sLen} :
              FLeq(pout.score, ScoreAt(pin.totalCoverage, l))

\* a score below 1 that grows with the coverage and with the length
C23_Witness ==
  /\ ppc = "scored"
  /\ pout.fn = "api"
  /\ pin.totalCoverage = 1
  /\ pin.sLen = 10
  /\ pin.avg = Q(5500, 1)
  /\ pin.total = 4
  /\ pout.score # ScoreAt(2, 10)
  /\ pout.score # ScoreAt(1, 25)
  /\ FLeq(pout.score, ScoreAt(2, 25))

====
